---------------------------- MODULE Spec2Model ----------------------------
(***************************************************************************)
(* ENCLS leaf dispatch (driver/linux/encls.h) of the SGX DCAP Linux        *)
(* driver, and the page lifecycle that is built on it.                     *)
(*                                                                         *)
(* A C int is a TLA+ integer in -2^31 .. 2^31-1.  TLC's own integers are   *)
(* 32 bits wide, so no intermediate value may leave that range: the bit    *)
(* operators below work on the two's complement bits of a signed value     *)
(* (x % 2 is bit 0 and x \div 2 the arithmetic shift, for negative x too). *)
(***************************************************************************)
EXTENDS Integers, FiniteSets, Sequences, TLC

VARIABLES
    sgx2,       \* boot_cpu_has(X86_FEATURE_SGX2), probed once
    leaf,       \* the ENCLS leaf of the last wrapper call, "none" before any
    hw,         \* what the instruction of the last call did (fault, trapnr, eax, rbx)
    ret,        \* the int the last wrapper call returned
    data,       \* the caller's word *data handed to __edbgrd / __edbgwr
    data_old,   \* *data as it was before the last wrapper call
    cls,        \* the last encls_failed call: [ret, failed]
    enc,        \* the last fault encoding: [t, r, back]
    state,      \* lifecycle state of each enclave page
    acked,      \* per page: the processors that acknowledged since its last track
    va,         \* the version-array page: what each slot holds
    tampered,   \* per page: its evicted copy in regular memory was modified
    last,       \* the last lifecycle operation: [op, page, pre, ready, tampered, kind]
    init_n,     \* how many consecutive EINIT attempts the hardware will reject
    attempts,   \* EINIT attempts made so far
    init_pc,    \* where the init retry loop stands
    spins,      \* attempts made in the busy-spin phase
    sleeps,     \* attempts made in the sleep phase
    init_result \* what init surfaced

dispatch_vars == <<sgx2, leaf, hw, ret, data, data_old, cls, enc>>

life_vars == <<state, acked, va, tampered, last>>

einit_vars == <<init_n, attempts, init_pc, spins, sleeps, init_result>>

vars == <<dispatch_vars, life_vars, einit_vars>>

-----------------------------------------------------------------------------
(* 32-bit two's complement arithmetic.                                     *)

INT_MIN == -(2^30) - 2^30
INT_MAX == 2^30 + (2^30 - 1)

\* The low n bits of a & b, bit by bit.
RECURSIVE AndBits(_, _, _)
AndBits(a, b, n) ==
    IF n = 0 THEN 0
    ELSE (a % 2) * (b % 2) + 2 * AndBits(a \div 2, b \div 2, n - 1)

\* a & b for two hexadecimal digits, tabulated once.
AndNibble == [x \in 0 .. 15 |-> [y \in 0 .. 15 |-> AndBits(x, y, 4)]]

\* The low n hexadecimal digits of a & b.
RECURSIVE AndNibbles(_, _, _)
AndNibbles(a, b, n) ==
    IF n = 0 THEN 0
    ELSE AndNibble[a % 16][b % 16] + 16 * AndNibbles(a \div 16, b \div 16, n - 1)

\* The top digit (bits 28..31) of a & b, as a signed value -8 .. 7.
AndTop(a, b) ==
    LET t == AndNibble[(a \div (2^28)) % 16][(b \div (2^28)) % 16]
    IN  IF t >= 8 THEN t - 16 ELSE t

\* C's a & b on int: bits 0..27, then bits 28..31 with the sign.
BitAnd(a, b) == AndNibbles(a, b, 7) + (2^28) * AndTop(a, b)

\* C's ~a on int.
BitNot(a) == (-1) - a

\* C's a | b on int (the orl of the fixup code).
BitOr(a, b) == BitNot(BitAnd(BitNot(a), BitNot(b)))

\* xor %eax,%eax and friends.
BitXor(a, b) == BitAnd(BitOr(a, b), BitNot(BitAnd(a, b)))

-----------------------------------------------------------------------------
(* encls.h: constants and macros.                                          *)

ENCLS_FAULT_FLAG == 1073741824

X86_TRAP_GP == 13

X86_TRAP_PF == 14

\* A mask that also clears the sign bit.
ENCLS_TRAPNR_Low30(r) == BitAnd(r, ENCLS_FAULT_FLAG - 1)

\* No mask at all.
ENCLS_TRAPNR_Unmasked(r) == r

\* #define ENCLS_TRAPNR(r) ((r) & ~ENCLS_FAULT_FLAG)
ENCLS_TRAPNR(r) == BitAnd(r, BitNot(ENCLS_FAULT_FLAG))

\* The benign trap numbers of the two generations swapped.
epcm_trapnr_Swapped(has_sgx2) == IF has_sgx2 THEN X86_TRAP_GP ELSE X86_TRAP_PF

\* int epcm_trapnr = boot_cpu_has(X86_FEATURE_SGX2) ? X86_TRAP_PF : X86_TRAP_GP;
epcm_trapnr(has_sgx2) == IF has_sgx2 THEN X86_TRAP_PF ELSE X86_TRAP_GP

\* static inline bool encls_failed(int ret), with the probed feature bit.
encls_failed(r, has_sgx2) ==
    LET fault == BitAnd(r, ENCLS_FAULT_FLAG) # 0
    IN  \/ (fault /\ ENCLS_TRAPNR(r) # epcm_trapnr(has_sgx2))
        \/ (~fault /\ r # 0)

-----------------------------------------------------------------------------
(* The instruction.  An ENCLS either completes, leaving a value in EAX     *)
(* (and RBX), or faults; the exception table entry _ASM_EXTABLE_FAULT      *)
(* then puts the trap number in EAX and resumes at the fixup label 3.      *)

\* Trap numbers a faulting ENCLS can raise (#DE, #UD, #GP, #PF, the last vector).
Traps == {0, 6, X86_TRAP_GP, X86_TRAP_PF, 255}

\* The positive SGX error codes of the status-returning leaves (bits 30, 31
\* clear), among them 13 and 14, which are trap numbers as well.
StatusCodes == {1, 9, 11, 13, 14, 16, 128}

\* What a leaf without an error code may leave in EAX: anything.
EaxGarbage == {0, 1, 4, 13, 14, ENCLS_FAULT_FLAG, ENCLS_FAULT_FLAG + 14, -1}

\* Contents of a 64-bit data word, abstracted to a few values.
Words == {0, 1, 2}

NoHw == [fault |-> FALSE, trapnr |-> 0, eax |-> 0, rbx |-> 0]

\* Outcomes of a leaf that returns an error code in EAX.
RetOutcomes ==
    [fault : {FALSE}, trapnr : {0}, eax : {0} \cup StatusCodes, rbx : {0}]
    \cup [fault : {TRUE}, trapnr : Traps, eax : {0}, rbx : {0}]

\* Outcomes of a leaf that returns no error code.
NoRetOutcomes ==
    [fault : {FALSE}, trapnr : {0}, eax : EaxGarbage, rbx : Words]
    \cup [fault : {TRUE}, trapnr : Traps, eax : {0}, rbx : Words]

\* The fixup without the orl: the bare trap number.
fixup_NoFlag(trapnr) == trapnr

\* 3: orl $ENCLS_FAULT_FLAG,%eax ; jmp 2b   (EAX holds the trap number)
fixup(trapnr) == BitOr(trapnr, ENCLS_FAULT_FLAG)

\* #define __encls_ret_N(rax, inputs...)
__encls_ret_N(o) == IF o.fault THEN fixup(o.trapnr) ELSE o.eax

\* __encls_N without the xor: EAX is returned as the instruction left it.
__encls_N_NoXor(o) == IF o.fault THEN fixup(o.trapnr) ELSE o.eax

\* #define __encls_N(rax, rbx_out, inputs...)
__encls_N(o) == IF o.fault THEN fixup(o.trapnr) ELSE BitXor(o.eax, o.eax)

__encls_ret_1(o) == __encls_ret_N(o)

__encls_ret_2(o) == __encls_ret_N(o)

__encls_ret_3(o) == __encls_ret_N(o)

__encls_2(o) == __encls_N(o)

\* __encls_1_1 storing rbx_out whatever ret is.
__encls_1_1_Always(o, d) == [ret |-> __encls_N(o), data |-> o.rbx]

\* #define __encls_1_1(rax, data, rcx): [ret, data], data the word afterwards.
__encls_1_1(o, d) ==
    LET r == __encls_N(o)
    IN  [ret |-> r, data |-> IF r = 0 THEN o.rbx ELSE d]

-----------------------------------------------------------------------------
(* The typed wrappers, one per leaf.                                       *)

__ecreate(o) == __encls_2(o)

__eextend(o) == __encls_2(o)

__eadd(o) == __encls_2(o)

\* EINIT issued through the wrapper for leaves without an error code.
__einit_NoStatus(o) == __encls_2(o)

__einit(o) == __encls_ret_3(o)

__eremove(o) == __encls_ret_1(o)

__edbgwr(o) == __encls_2(o)

__edbgrd(o, d) == __encls_1_1(o, d)

__etrack(o) == __encls_ret_1(o)

\* ELDU issued through the wrapper for leaves without an error code.
__eldu_NoStatus(o) == __encls_2(o)

__eldu(o) == __encls_ret_3(o)

__eblock(o) == __encls_ret_1(o)

__epa(o) == __encls_2(o)

\* EWB issued through the wrapper for leaves without an error code.
__ewb_NoStatus(o) == __encls_2(o)

__ewb(o) == __encls_ret_3(o)

\* Leaves whose wrapper is an __encls_ret_N, and those whose wrapper is an __encls_N.
StatusLeaves == {"EINIT", "EREMOVE", "ETRACK", "ELDU", "EBLOCK", "EWB"}

NoStatusLeaves == {"ECREATE", "EADD", "EEXTEND", "EDGBWR", "EDGBRD", "EPA"}

-----------------------------------------------------------------------------
(* The dispatch layer as a state machine: any caller may call any wrapper  *)
(* with any outcome of the instruction, and classify any int.              *)

\* Values an int return code can take on its way up the stack: 0, SGX error
\* codes, encoded faults, and negative system error codes (-EFAULT is -14).
RawResults ==
    {0, 1, 11, X86_TRAP_GP, X86_TRAP_PF, 128, ENCLS_FAULT_FLAG - 1,
     ENCLS_FAULT_FLAG, ENCLS_FAULT_FLAG + 1, ENCLS_FAULT_FLAG + X86_TRAP_GP,
     ENCLS_FAULT_FLAG + X86_TRAP_PF, INT_MAX,
     -1, -14, -512, INT_MIN, INT_MIN + X86_TRAP_GP, INT_MIN + X86_TRAP_PF,
     -ENCLS_FAULT_FLAG, -ENCLS_FAULT_FLAG + X86_TRAP_GP,
     -ENCLS_FAULT_FLAG + X86_TRAP_PF, -ENCLS_FAULT_FLAG - 1}

\* Trap numbers and status codes over the whole range 0 .. 2^30-1.
TrapRange == {0, 1, X86_TRAP_GP, X86_TRAP_PF, 255, ENCLS_FAULT_FLAG - 1}

StatusRange == {0, 1, X86_TRAP_GP, X86_TRAP_PF, 128, ENCLS_FAULT_FLAG - 1}

NoCls == [called |-> FALSE, ret |-> 0, failed |-> FALSE]

NoEnc == [t |-> -1, r |-> 0, back |-> 0]

DispatchInit ==
    /\ sgx2 \in BOOLEAN
    /\ leaf = "none"
    /\ hw = NoHw
    /\ ret = 0
    /\ data \in Words
    /\ data_old = data
    /\ cls = NoCls
    /\ enc = NoEnc

\* One ENCLS issued through a wrapper that leaves *data alone; RBX is an
\* input or ignored (ign_rbx_out), so only EAX and the fault matter.
Issue(name, o, r) ==
    /\ o.rbx = 0
    /\ leaf' = name
    /\ hw' = o
    /\ ret' = r
    /\ data_old' = data
    /\ cls' = NoCls
    /\ enc' = NoEnc
    /\ UNCHANGED <<sgx2, data>>

Call(name, o, result) ==
    \E r \in {result} :
        /\ Issue(name, o, r)
        /\ UNCHANGED <<life_vars, einit_vars>>

Ecreate == \E o \in NoRetOutcomes : Call("ECREATE", o, __ecreate(o))

Eextend == \E o \in NoRetOutcomes : Call("EEXTEND", o, __eextend(o))

Eadd == \E o \in NoRetOutcomes : Call("EADD", o, __eadd(o))

Einit == \E o \in RetOutcomes : Call("EINIT", o, __einit(o))

Eremove == \E o \in RetOutcomes : Call("EREMOVE", o, __eremove(o))

Edbgwr == \E o \in NoRetOutcomes : Call("EDGBWR", o, __edbgwr(o))

Edbgrd ==
    \E o \in NoRetOutcomes :
        \E res \in {__edbgrd(o, data)} :
            /\ leaf' = "EDGBRD"
            /\ hw' = o
            /\ ret' = res.ret
            /\ data' = res.data
            /\ data_old' = data
            /\ cls' = NoCls
            /\ enc' = NoEnc
            /\ UNCHANGED <<sgx2, life_vars, einit_vars>>

Etrack == \E o \in RetOutcomes : Call("ETRACK", o, __etrack(o))

Eldu == \E o \in RetOutcomes : Call("ELDU", o, __eldu(o))

Eblock == \E o \in RetOutcomes : Call("EBLOCK", o, __eblock(o))

Epa == \E o \in NoRetOutcomes : Call("EPA", o, __epa(o))

Ewb == \E o \in RetOutcomes : Call("EWB", o, __ewb(o))

\* The caller of the last wrapper hands its return value to encls_failed.
ClassifyRet ==
    /\ leaf # "none"
    /\ cls' = [called |-> TRUE, ret |-> ret, failed |-> encls_failed(ret, sgx2)]
    /\ UNCHANGED <<sgx2, leaf, hw, ret, data, data_old, enc, life_vars, einit_vars>>

\* encls_failed on a return code that came up the stack from elsewhere.
ClassifyRaw ==
    \E r \in RawResults :
        /\ cls' = [called |-> TRUE, ret |-> r, failed |-> encls_failed(r, sgx2)]
        /\ leaf' = "none"
        /\ hw' = NoHw
        /\ ret' = 0
        /\ data_old' = data
        /\ enc' = NoEnc
        /\ UNCHANGED <<sgx2, data, life_vars, einit_vars>>

\* The fault path alone: a trap number is flagged by the fixup and read back
\* with ENCLS_TRAPNR.
Encode ==
    \E t \in TrapRange :
        /\ enc' = [t |-> t, r |-> fixup(t), back |-> ENCLS_TRAPNR(fixup(t))]
        /\ leaf' = "none"
        /\ hw' = NoHw
        /\ ret' = 0
        /\ data_old' = data
        /\ cls' = NoCls
        /\ UNCHANGED <<sgx2, data, life_vars, einit_vars>>

DispatchNext ==
    \/ Ecreate \/ Eextend \/ Eadd \/ Einit \/ Eremove \/ Edbgwr \/ Edbgrd
    \/ Etrack \/ Eldu \/ Eblock \/ Epa \/ Ewb
    \/ ClassifyRet \/ ClassifyRaw \/ Encode

-----------------------------------------------------------------------------
(* The page lifecycle controller.  Its code is not among the sources       *)
(* (encls.h only declares what it calls), so it follows the design         *)
(* document: the transition table, the eviction safety precondition, the   *)
(* version-slot pool and the error taxonomy.  Every ENCLS it issues goes   *)
(* through the wrapper of encls.h, and its reaction depends on the value   *)
(* the wrapper returns.                                                    *)

NumPages == 2

NumCPUs == 2

\* Slots of the version array in the model (an EPA page of the hardware has 512).
VASlots == 1

Pages == 1 .. NumPages

CPUs == 1 .. NumCPUs

Slots == 1 .. VASlots

NoPage == 0

\* enum sgx_encls_leaf: a leaf without an error code leaves EAX as it was
\* loaded, with the leaf number.
LeafNr ==
    [ECREATE |-> 0, EADD |-> 1, EINIT |-> 2, EREMOVE |-> 3, EDGBRD |-> 4,
     EDGBWR |-> 5, EEXTEND |-> 6, ELDU |-> 8, EBLOCK |-> 9, EPA |-> 10,
     EWB |-> 11, ETRACK |-> 12]

\* SGX error codes the lifecycle reacts to.  Their values are those of the
\* driver's architecture header; all that matters here is that they are
\* positive, below 2^30 and distinct.
SGX_MAC_COMPARE_FAIL == 9

SGX_NOT_TRACKED == 11

SGX_CHILD_PRESENT == 13

SGX_UNMASKED_EVENT == 128

\* The instruction completed and left this code in EAX.
Completed(code) == [fault |-> FALSE, trapnr |-> 0, eax |-> code, rbx |-> 0]

\* The instruction faulted (#GP or #PF).
Faulted == [fault : {TRUE}, trapnr : {X86_TRAP_GP, X86_TRAP_PF}, eax : {0}, rbx : {0}]

\* The shootdown pass since the last track of p has completed.
ShootdownDone(p) == acked[p] = CPUs

\* Every slot counted as free, whatever it holds.
FreeSlots_All == Slots

\* The version slots that hold nothing.
FreeSlots == {i \in Slots : va[i] = NoPage}

SlotsOf(p) == {i \in Slots : va[i] = p}

\* EWB: rejected with SGX_NOT_TRACKED unless the page is tracked and every
\* processor has acknowledged the epoch.
EwbOutcomes(p) ==
    Faulted \cup
    {Completed(IF state[p] = "Tracked" /\ ShootdownDone(p)
               THEN 0 ELSE SGX_NOT_TRACKED)}

\* ELDU: verifies the stored copy against its metadata and version.
ElduOutcomes(p) ==
    Faulted \cup {Completed(IF tampered[p] THEN SGX_MAC_COMPARE_FAIL ELSE 0)}

\* The error taxonomy applied to a wrapper's return value.
Kind(op, r) ==
    IF r = 0 THEN "Success"
    ELSE IF BitAnd(r, ENCLS_FAULT_FLAG) # 0 THEN "Fault"
    ELSE IF op = "load" /\ r = SGX_MAC_COMPARE_FAIL THEN "IntegrityMismatch"
    ELSE "OperationStatus"

NoLast ==
    [op |-> "none", page |-> NoPage, pre |-> "none", ready |-> FALSE,
     tampered |-> FALSE, kind |-> "Success"]

\* What the controller did last: the operation, its page, the state the page
\* was in and whether it was tracked with its shootdown complete (evict),
\* whether its stored copy had been modified (load), and what was surfaced.
Record(op, p, kind) ==
    [op |-> op, page |-> p,
     pre |-> IF op = "evict" THEN state[p] ELSE "none",
     ready |-> op = "evict" /\ state[p] = "Tracked" /\ ShootdownDone(p),
     tampered |-> op = "load" /\ tampered[p],
     kind |-> kind]

LifeInit ==
    /\ state = [p \in Pages |-> "Free"]
    /\ acked = [p \in Pages |-> {}]
    /\ va = [i \in Slots |-> NoPage]
    /\ tampered = [p \in Pages |-> FALSE]
    /\ last = NoLast

\* Free -> Added (add).
Add(p) ==
    /\ state[p] = "Free"
    /\ \E o \in Faulted \cup {Completed(LeafNr.EADD)} :
        \E r \in {__eadd(o)} :
            /\ Issue("EADD", o, r)
            /\ state' = IF r = 0 THEN [state EXCEPT ![p] = "Added"] ELSE state
            /\ last' = Record("add", p, Kind("add", r))
    /\ UNCHANGED <<acked, va, tampered, einit_vars>>

\* Added -> Blocked (block).
Block(p) ==
    /\ state[p] = "Added"
    /\ \E o \in Faulted \cup {Completed(0)} :
        \E r \in {__eblock(o)} :
            /\ Issue("EBLOCK", o, r)
            /\ state' = IF r = 0 THEN [state EXCEPT ![p] = "Blocked"] ELSE state
            /\ last' = Record("block", p, Kind("block", r))
    /\ UNCHANGED <<acked, va, tampered, einit_vars>>

\* Blocked -> Tracked (track), for a batch of pages blocked together; a
\* tracked page may be tracked again.  The epoch advances: nobody has
\* acknowledged it yet.
Track(batch) ==
    /\ batch # {}
    /\ \A p \in batch : state[p] \in {"Blocked", "Tracked"}
    /\ \E o \in Faulted \cup {Completed(0)} :
        \E r \in {__etrack(o)}, p0 \in {p \in batch : \A q \in batch : p <= q} :
            /\ Issue("ETRACK", o, r)
            /\ state' = IF r = 0
                        THEN [p \in Pages |-> IF p \in batch THEN "Tracked" ELSE state[p]]
                        ELSE state
            /\ acked' = IF r = 0
                        THEN [p \in Pages |-> IF p \in batch THEN {} ELSE acked[p]]
                        ELSE acked
            /\ last' = Record("track", p0, Kind("track", r))
    /\ UNCHANGED <<va, tampered, einit_vars>>

\* One processor takes the shootdown interrupt: it has seen the epoch of
\* every page tracked so far.
Ack(c) ==
    /\ \E p \in Pages : state[p] = "Tracked" /\ c \notin acked[p]
    /\ acked' = [p \in Pages |->
                    IF state[p] = "Tracked" THEN acked[p] \cup {c} ELSE acked[p]]
    /\ UNCHANGED <<dispatch_vars, state, va, tampered, last, einit_vars>>

\* Evict without a free version slot: ResourceExhausted, no ENCLS issued.
EvictNoSlot(p) ==
    /\ state[p] \in {"Blocked", "Tracked"}
    /\ FreeSlots = {}
    /\ last' = Record("evict", p, "ResourceExhausted")
    /\ UNCHANGED <<dispatch_vars, state, acked, va, tampered, einit_vars>>

\* Tracked + shootdown complete -> Evicted (write-back) into a free slot.
Evict(p) ==
    /\ state[p] \in {"Blocked", "Tracked"}
    /\ \E i \in FreeSlots, o \in EwbOutcomes(p) :
        \E r \in {__ewb(o)} :
            /\ Issue("EWB", o, r)
            /\ state' = IF r = 0 THEN [state EXCEPT ![p] = "Evicted"] ELSE state
            /\ va' = IF r = 0 THEN [va EXCEPT ![i] = p] ELSE va
            /\ acked' = IF r = 0 THEN [acked EXCEPT ![p] = {}] ELSE acked
            /\ last' = Record("evict", p, Kind("evict", r))
    /\ UNCHANGED <<tampered, einit_vars>>

\* The evicted copy lives in regular memory, where anything can modify it.
Tamper(p) ==
    /\ state[p] = "Evicted"
    /\ ~tampered[p]
    /\ tampered' = [tampered EXCEPT ![p] = TRUE]
    /\ UNCHANGED <<dispatch_vars, state, acked, va, last, einit_vars>>

\* Evicted -> Added (load): resident again only when ELDU succeeded; the
\* slot is released with it.
Load(p) ==
    /\ state[p] = "Evicted"
    /\ \E o \in ElduOutcomes(p) :
        \E r \in {__eldu(o)} :
            /\ Issue("ELDU", o, r)
            /\ state' = IF r = 0 THEN [state EXCEPT ![p] = "Added"] ELSE state
            /\ va' = IF r = 0
                     THEN [i \in Slots |-> IF va[i] = p THEN NoPage ELSE va[i]]
                     ELSE va
            /\ last' = Record("load", p, Kind("load", r))
    /\ UNCHANGED <<acked, tampered, einit_vars>>

\* Any resident state -> Free (remove); the hardware refuses while the page
\* is still referenced.
Remove(p) ==
    /\ state[p] \in {"Added", "Blocked", "Tracked"}
    /\ \E o \in Faulted \cup {Completed(0), Completed(SGX_CHILD_PRESENT)} :
        \E r \in {__eremove(o)} :
            /\ Issue("EREMOVE", o, r)
            /\ state' = IF r = 0 THEN [state EXCEPT ![p] = "Free"] ELSE state
            /\ acked' = IF r = 0 THEN [acked EXCEPT ![p] = {}] ELSE acked
            /\ last' = Record("remove", p, Kind("remove", r))
    /\ UNCHANGED <<va, tampered, einit_vars>>

\* An evicted page is given up for good: its slot returns to the pool.
Discard(p) ==
    /\ state[p] = "Evicted"
    /\ state' = [state EXCEPT ![p] = "Free"]
    /\ va' = [i \in Slots |-> IF va[i] = p THEN NoPage ELSE va[i]]
    /\ tampered' = [tampered EXCEPT ![p] = FALSE]
    /\ last' = Record("discard", p, "Success")
    /\ UNCHANGED <<dispatch_vars, acked, einit_vars>>

LifeNext ==
    \/ \E p \in Pages : Add(p)
    \/ \E p \in Pages : Block(p)
    \/ \E batch \in SUBSET Pages : Track(batch)
    \/ \E c \in CPUs : Ack(c)
    \/ \E p \in Pages : EvictNoSlot(p)
    \/ \E p \in Pages : Evict(p)
    \/ \E p \in Pages : Tamper(p)
    \/ \E p \in Pages : Load(p)
    \/ \E p \in Pages : Remove(p)
    \/ \E p \in Pages : Discard(p)

-----------------------------------------------------------------------------
(* The init retry policy around sgx_einit (declared in encls.h; the loop   *)
(* itself is not among the sources and follows the design document): a     *)
(* bounded number of busy-spin attempts, then a larger bounded number of   *)
(* attempts with a short sleep before each, then a final failure.          *)

SGX_EINIT_SPIN_COUNT == 20

SGX_EINIT_SLEEP_COUNT == 50

\* How far past the retry budget the contention may last in the model.
MaxExtra == 2

EinitBudget == SGX_EINIT_SPIN_COUNT + SGX_EINIT_SLEEP_COUNT

EinitIdle ==
    /\ init_n = 0
    /\ attempts = 0
    /\ init_pc = "idle"
    /\ spins = 0
    /\ sleeps = 0
    /\ init_result = "none"

\* EINIT is rejected with SGX_UNMASKED_EVENT for the first init_n attempts
\* and succeeds on the next.
EinitOutcome ==
    Completed(IF attempts < init_n THEN SGX_UNMASKED_EVENT ELSE 0)

InitStart ==
    /\ init_pc = "idle"
    /\ init_pc' = "spin"
    /\ UNCHANGED <<dispatch_vars, life_vars, init_n, attempts, spins, sleeps,
                   init_result>>

\* One attempt of the busy-spin phase.
SpinAttempt ==
    /\ init_pc = "spin"
    /\ spins < SGX_EINIT_SPIN_COUNT
    /\ \E r \in {__einit(EinitOutcome)} :
           /\ Issue("EINIT", EinitOutcome, r)
           /\ attempts' = attempts + 1
           /\ spins' = spins + 1
           /\ init_pc' = IF r # SGX_UNMASKED_EVENT THEN "done"
                         ELSE IF spins + 1 = SGX_EINIT_SPIN_COUNT THEN "sleep"
                         ELSE "spin"
           /\ init_result' = IF r = 0 THEN "Success"
                             ELSE IF r # SGX_UNMASKED_EVENT THEN "OperationStatus"
                             ELSE init_result
    /\ UNCHANGED <<life_vars, init_n, sleeps>>

\* msleep_interruptible(SGX_EINIT_SLEEP_TIME) before an attempt of the sleep phase.
Sleep ==
    /\ init_pc = "sleep"
    /\ init_pc' = "retry"
    /\ UNCHANGED <<dispatch_vars, life_vars, init_n, attempts, spins, sleeps,
                   init_result>>

\* One attempt of the sleep phase.
SleepAttempt ==
    /\ init_pc = "retry"
    /\ sleeps < SGX_EINIT_SLEEP_COUNT
    /\ \E r \in {__einit(EinitOutcome)} :
           /\ Issue("EINIT", EinitOutcome, r)
           /\ attempts' = attempts + 1
           /\ sleeps' = sleeps + 1
           /\ init_pc' = IF r # SGX_UNMASKED_EVENT THEN "done"
                         ELSE IF sleeps + 1 = SGX_EINIT_SLEEP_COUNT THEN "done"
                         ELSE "sleep"
           /\ init_result' = IF r = 0 THEN "Success"
                             ELSE IF r # SGX_UNMASKED_EVENT THEN "OperationStatus"
                             ELSE IF sleeps + 1 = SGX_EINIT_SLEEP_COUNT
                                  THEN "InitRetriesExhausted"
                             ELSE init_result
    /\ UNCHANGED <<life_vars, init_n, spins>>

EinitNext == InitStart \/ SpinAttempt \/ Sleep \/ SleepAttempt

-----------------------------------------------------------------------------
(* The specifications: the dispatch layer, the page lifecycle, and the     *)
(* init retry loop, which as a kernel thread runs on until it returns.     *)

Init == DispatchInit /\ LifeInit /\ EinitIdle

Next == DispatchNext

Spec == Init /\ [][Next]_vars

\* The lifecycle and the init loop never consult the hardware generation or
\* the debug word.
LifeSpecInit == DispatchInit /\ ~sgx2 /\ data = 0 /\ LifeInit /\ EinitIdle

LifeSpec == LifeSpecInit /\ [][LifeNext]_vars

EinitSpecInit ==
    /\ DispatchInit
    /\ ~sgx2
    /\ data = 0
    /\ LifeInit
    /\ init_n \in 0 .. (EinitBudget + MaxExtra)
    /\ attempts = 0
    /\ init_pc = "idle"
    /\ spins = 0
    /\ sleeps = 0
    /\ init_result = "none"

EinitSpec == EinitSpecInit /\ [][EinitNext]_vars /\ WF_vars(EinitNext)

-----------------------------------------------------------------------------
(* Properties of the dispatch layer.  They are stated with plain           *)
(* arithmetic on the value (bit 30 is (x \div 2^30) % 2), not with the     *)
(* operators the model of the code is built from.                          *)

Bit30(x) == (x \div ENCLS_FAULT_FLAG) % 2

\* x with bit 30 cleared, for an x that has it set.
WithoutBit30(x) == x - ENCLS_FAULT_FLAG

BenignTrap == IF sgx2 THEN 14 ELSE 13

OtherBenignTrap == IF sgx2 THEN 13 ELSE 14

\* C1: encls_failed(r) is true exactly when r carries the fault flag and its
\* trap number is not the benign trap number of the active generation (14
\* with SGX2, 13 without), or r carries no fault flag and is non-zero.  So
\* 0 is no failure, a fault with the benign trap number of the active
\* generation is no failure, and one with the other generation's is.
C1_EnclsFailedExact ==
    cls.called =>
        /\ cls.failed <=>
              \/ (Bit30(cls.ret) = 1 /\ WithoutBit30(cls.ret) # BenignTrap)
              \/ (Bit30(cls.ret) = 0 /\ cls.ret # 0)
        /\ (cls.ret = 0 => ~cls.failed)
        /\ (cls.ret = ENCLS_FAULT_FLAG + BenignTrap => ~cls.failed)
        /\ (cls.ret = ENCLS_FAULT_FLAG + OtherBenignTrap => cls.failed)

\* A fault with the benign trap number of the active generation was classified.
C1_Witness ==
    /\ cls.called
    /\ cls.ret = ENCLS_FAULT_FLAG + BenignTrap
    /\ ~cls.failed

\* C2: a status-returning leaf returns 0 on success, the positive status
\* code with the fault flag clear on a controlled failure, and
\* ENCLS_FAULT_FLAG | trapnr on a fault; no controlled failure and fault
\* share a value, and the flag is set if and only if the instruction faulted.
C2_StatusLeafShapes ==
    leaf \in StatusLeaves =>
        /\ (~hw.fault /\ hw.eax = 0) => ret = 0
        /\ (~hw.fault /\ hw.eax # 0) =>
              (ret = hw.eax /\ ret > 0 /\ Bit30(ret) = 0)
        /\ hw.fault => ret = ENCLS_FAULT_FLAG + hw.trapnr
        /\ (Bit30(ret) = 1) <=> hw.fault
        /\ hw.fault => \A code \in {0} \cup StatusCodes : ret # code
        /\ ~hw.fault => \A t \in Traps : ret # ENCLS_FAULT_FLAG + t

\* A status leaf faulted with a trap number that is also an SGX error code.
C2_Witness ==
    /\ leaf \in StatusLeaves
    /\ hw.fault
    /\ hw.trapnr \in StatusCodes
    /\ ret = ENCLS_FAULT_FLAG + hw.trapnr

\* C3: a no-status leaf returns 0 whenever the instruction does not fault,
\* whatever it leaves in EAX, and ENCLS_FAULT_FLAG | trapnr when it faults;
\* it never returns a non-zero value with the fault flag clear.
C3_NoStatusLeafShapes ==
    leaf \in NoStatusLeaves =>
        /\ ~hw.fault => ret = 0
        /\ hw.fault => ret = ENCLS_FAULT_FLAG + hw.trapnr
        /\ ~(ret # 0 /\ Bit30(ret) = 0)

\* A no-status leaf completed with a non-zero EAX and returned 0.
C3_Witness ==
    /\ leaf \in NoStatusLeaves
    /\ ~hw.fault
    /\ hw.eax # 0
    /\ ret = 0

\* C8: for every trap number t and status code s in 0 .. 2^30-1, the encoded
\* fault ENCLS_FAULT_FLAG | t differs from s, has bit 30 set while s has it
\* clear, is positive as a 32-bit signed integer, and ENCLS_TRAPNR gives t back.
C8_NoCollision ==
    enc.t >= 0 =>
        /\ \A s \in StatusRange : enc.r # s /\ Bit30(s) = 0
        /\ Bit30(enc.r) = 1
        /\ enc.r > 0
        /\ enc.r <= INT_MAX
        /\ enc.back = enc.t

\* The largest trap number of the range was encoded and read back.
C8_Witness ==
    /\ enc.t = ENCLS_FAULT_FLAG - 1
    /\ enc.r = INT_MAX
    /\ enc.back = enc.t

\* C9: __edbgrd writes the caller's word if and only if the instruction did
\* not fault: with result 0 the word holds the value the leaf returned in
\* RBX, with the fault flag in the result the word is as it was.
C9_DebugReadFrame ==
    leaf = "EDGBRD" =>
        /\ (ret = 0) <=> ~hw.fault
        /\ ret = 0 => data = hw.rbx
        /\ Bit30(ret) = 1 => data = data_old
        /\ ret = 0 \/ Bit30(ret) = 1

\* A debug read faulted while RBX held something else than the caller's word.
C9_Witness ==
    /\ leaf = "EDGBRD"
    /\ hw.fault
    /\ hw.rbx # data_old
    /\ data = data_old

\* C10: encls_failed is true of every negative value, on both generations,
\* with bit 30 set or clear.
C10_NegativeAlwaysFailed ==
    (cls.called /\ cls.ret < 0) => cls.failed

\* A negative value with bit 30 set whose low bits are the benign trap number.
C10_Witness ==
    /\ cls.called
    /\ cls.ret = -ENCLS_FAULT_FLAG + BenignTrap
    /\ cls.failed

-----------------------------------------------------------------------------
(* Properties of the page lifecycle (under LifeSpec).                      *)

\* C4: evict never succeeds on a page whose tracking epoch has not been
\* acknowledged by every processor since its most recent track: such an
\* evict is rejected, the page stays in the state it was in (Tracked, if it
\* was tracked) and does not become Evicted.
C4_EvictNeedsShootdown ==
    (last.op = "evict" /\ ~last.ready) =>
        /\ last.kind # "Success"
        /\ state[last.page] = last.pre
        /\ state[last.page] # "Evicted"
        /\ SlotsOf(last.page) = {}
        /\ last.kind # "ResourceExhausted" => (leaf = "EWB" /\ ret # 0)

\* EWB was issued on a tracked page that only some processors had
\* acknowledged, and came back with SGX_NOT_TRACKED.
C4_Witness ==
    /\ last.op = "evict"
    /\ last.pre = "Tracked"
    /\ ~last.ready
    /\ acked[last.page] # {}
    /\ ret = SGX_NOT_TRACKED
    /\ last.kind = "OperationStatus"
    /\ state[last.page] = "Tracked"

EvictedPages == {p \in Pages : state[p] = "Evicted"}

-----------------------------------------------------------------------------
(* Properties of the init retry loop (under EinitSpec).                    *)

\* C5: with fewer consecutive contention failures than the budget of
\* SGX_EINIT_SPIN_COUNT + SGX_EINIT_SLEEP_COUNT = 70 attempts, init
\* eventually succeeds, on the attempt after the last failure; with as many
\* or more it ends with InitRetriesExhausted after exactly 70 attempts; the
\* attempts never exceed the budget and none is made once init has ended.
C5_InitRetryBound ==
    /\ [](attempts <= 70)
    /\ [](init_pc = "done" =>
            IF init_n < 70
            THEN init_result = "Success" /\ attempts = init_n + 1
            ELSE init_result = "InitRetriesExhausted" /\ attempts = 70)
    /\ [](init_result = "InitRetriesExhausted" => init_pc = "done")
    /\ <>(init_pc = "done")
    /\ [][init_pc = "done" => (attempts' = attempts /\ init_pc' = "done")]_vars

\* Init succeeded on the very last attempt of the budget.
C5_Witness ==
    /\ init_pc = "done"
    /\ init_n = 69
    /\ attempts = 70
    /\ init_result = "Success"

=============================================================================
